---- MODULE Spec2Model ----
(***************************************************************************)
(* Model of infra/components.py: the pydantic configuration (HFVars,       *)
(* Props), the suffix generator generate_unique_id, and the construct      *)
(* TgiLlm with its constructor, run_endpoint_build and the four private    *)
(* build steps.                                                            *)
(*                                                                         *)
(* Conventions.  A Python value that may be missing (an omitted keyword    *)
(* argument, None, an instance attribute that was never assigned) is a     *)
(* sequence of length 0 or 1: None is <<>>, Some(v) is <<v>>.  The strings *)
(* the code builds by formatting or sampling (the UUID text, the suffix,   *)
(* the three resource names) are sequences of one-character strings, so    *)
(* that length and membership are computed; strings the code only passes   *)
(* on or tests for emptiness are TLA+ strings.                             *)
(*                                                                         *)
(* The classes imported from aws_cdk and constructs are not part of the    *)
(* repository.  A call into them either returns the object built from the  *)
(* arguments the code passes, or raises; which of the two is a             *)
(* nondeterministic choice.  A construct created in a scope under an id    *)
(* that the scope already holds always raises (the constructs contract).   *)
(***************************************************************************)
EXTENDS Integers, Sequences, FiniteSets, TLC

VARIABLES
    kw,                    \* keyword arguments the caller gives the Props class
    props,                 \* the validated configuration object, None before/without it
    unique_id,             \* self.unique_id
    model_name,            \* self.model_name
    endpoint_name,         \* self.endpoint_name
    endpoint_config_name,  \* self.endpoint_config_name
    container_definition,  \* self.container_definition
    model,                 \* self.model
    endpoint_config,       \* self.endpoint_config
    endpoint,              \* self.endpoint
    children,              \* ids of the constructs created in scope self
    outputs,               \* the CfnOutput values emitted
    pc,                    \* position of the calling program
    ret,                   \* position _set_container returns to
    called,                \* the method of TgiLlm invoked last
    err,                   \* the exception that reached the caller
    chars,                 \* generate_unique_id: the argument, None when not given
    characters,            \* generate_unique_id: str(uuid4())
    rnd,                   \* generate_unique_id: the indices random.choice draws
    suffix                 \* generate_unique_id: the value returned

vars == <<kw, props, unique_id, model_name, endpoint_name, endpoint_config_name,
          container_definition, model, endpoint_config, endpoint, children,
          outputs, pc, ret, called, err, chars, characters, rnd, suffix>>

identity == <<unique_id, model_name, endpoint_name, endpoint_config_name>>
nodes == <<container_definition, model, endpoint_config, endpoint>>
builder == <<identity, nodes, children, outputs>>
idvars == <<chars, characters, rnd, suffix>>

None == <<>>
Some(v) == <<v>>
Range(s) == {s[i] : i \in 1..Len(s)}

\* ------------------------------------------------------------------ bounds
MaxChars == 4
MaxStride == 1
MaxOffset == 2

\* ------------------------------------------------------- generate_unique_id
DefaultChars == 10

HexSample == {"0", "f"}
VariantDigits == {"8", "b"}

Rep(c, n) == [i \in 1..n |-> c]

\* str(uuid4()): 8-4-4-4-12 hex digits, version digit 4, variant digit 8..b
str_uuid4(a, b, v) ==
    Rep(a, 8) \o <<"-">> \o Rep(b, 4) \o <<"-">> \o <<"4">> \o Rep(a, 3)
      \o <<"-">> \o <<v>> \o Rep(b, 3) \o <<"-">> \o Rep(b, 12)

UuidTexts == {str_uuid4(a, b, v) : a \in HexSample, b \in HexSample, v \in VariantDigits}

\* the indices the process-wide random source hands to n successive
\* random.choice calls on a sequence of length len
RandomDraws(n, len) ==
    {[i \in 1..n |-> ((s * i + 7 * o) % len) + 1] : s \in 0..MaxStride, o \in 0..MaxOffset}

generate_unique_id_short(n, text, draws) ==
    [i \in 1..(IF n > 0 THEN n - 1 ELSE 0) |-> text[draws[i]]]

generate_unique_id(n, text, draws) ==
    [i \in 1..n |-> text[draws[i]]]

\* ------------------------------------------------------------ HFVars, Props
DefaultInstanceType == "ml.g5.2xlarge"
DefaultHealthCheck == 300
DefaultRepoName == "huggingface-pytorch-inference"

Field(given, default) == IF given = None THEN default ELSE given[1]

\* HFVars(**ev): HF_MODEL_ID is required
HFVars(ev) ==
    IF ev.HF_MODEL_ID = None THEN None
    ELSE Some([HF_MODEL_ID |-> ev.HF_MODEL_ID[1]])

Props_tag_optional(k) ==
    IF k.environment_vars = None \/ HFVars(k.environment_vars[1]) = None
    THEN None
    ELSE Some([name |-> IF k.cls = "NamedProps" THEN k.name ELSE None,
               instance_type |-> Field(k.instance_type, DefaultInstanceType),
               environment_vars |-> HFVars(k.environment_vars[1])[1],
               s3_model_path |-> k.s3_model_path,
               tag |-> Field(k.tag, ""),
               start_up_health_check_seconds |->
                   Field(k.start_up_health_check_seconds, DefaultHealthCheck),
               repo_name |-> Field(k.repo_name, DefaultRepoName)])

\* Props(**k): the validated object, or None when pydantic raises
\* ValidationError.  tag and environment_vars are required, the other fields
\* have defaults and no field carries a constraint.  The class declares no
\* field "name": only an object of a subclass that declares it has one.
Props(k) ==
    IF \/ k.tag = None
       \/ k.environment_vars = None
       \/ HFVars(k.environment_vars[1]) = None
       \/ (k.cls = "NamedProps" /\ k.name = None)
    THEN None
    ELSE Some([name |-> IF k.cls = "NamedProps" THEN k.name ELSE None,
               instance_type |-> Field(k.instance_type, DefaultInstanceType),
               environment_vars |-> HFVars(k.environment_vars[1])[1],
               s3_model_path |-> k.s3_model_path,
               tag |-> k.tag[1],
               start_up_health_check_seconds |->
                   Field(k.start_up_health_check_seconds, DefaultHealthCheck),
               repo_name |-> Field(k.repo_name, DefaultRepoName)])

\* the keyword arguments the model tries
Names == {<<"t", "g", "i">>}
Keywords ==
    [cls : {"Props", "NamedProps"},
     name : {None} \cup {Some(n) : n \in Names},
     instance_type : {None, Some("ml.g5.12xlarge")},
     environment_vars : {None, Some([HF_MODEL_ID |-> None]),
                         Some([HF_MODEL_ID |-> Some("gpt2")])},
     s3_model_path : {None, Some(""), Some("s3://bucket/model.tar.gz")},
     tag : {None, Some("2.0.1")},
     start_up_health_check_seconds : {None, Some(0), Some(-5), Some(600)},
     repo_name : {None}]

\* ------------------------------------------------------------ the program
Init ==
    /\ kw = None
    /\ props = None
    /\ unique_id = None
    /\ model_name = None
    /\ endpoint_name = None
    /\ endpoint_config_name = None
    /\ container_definition = None
    /\ model = None
    /\ endpoint_config = None
    /\ endpoint = None
    /\ children = {}
    /\ outputs = <<>>
    /\ pc = "start"
    /\ ret = [via |-> "", next |-> ""]
    /\ called = ""
    /\ err = None
    /\ chars = None
    /\ characters = <<>>
    /\ rnd = <<>>
    /\ suffix = None

\* the statement of run_endpoint_build that follows the given one
NextLine(line) ==
    CASE line = "run_76" -> "run_77"
      [] line = "run_77" -> "run_78"
      [] line = "run_78" -> "run_79"
      [] line = "run_79" -> "run_81"
      [] OTHER -> "idle"

Raise_swallowed(type, at, via) ==
    /\ err' = Some([type |-> type, at |-> at, via |-> via])
    /\ pc' = NextLine(via)

\* An exception raised in method `at`, called from `via`.  No method of the
\* file catches anything: the exception leaves the method, leaves
\* run_endpoint_build when that is the caller, and reaches the calling program.
Raise(type, at, via) ==
    /\ err' = Some([type |-> type, at |-> at, via |-> via])
    /\ pc' = "raised"

\* the caller builds the configuration: Props(**k)
CreateProps ==
    /\ pc = "start"
    /\ \E k \in Keywords :
         /\ kw' = Some(k)
         /\ props' = Props(k)
         /\ pc' = IF Props(k) = None THEN "validation_error" ELSE "have_props"
    /\ UNCHANGED <<builder, ret, called, err, idvars>>

Dash == <<"-">>
EndpointInfix == <<"-", "e", "n", "d", "p", "o", "i", "n", "t", "-">>
ConfigInfix == <<"-", "c", "o", "n", "f", "i", "g", "-">>

\* TgiLlm.__init__(scope, cid, props)
TgiLlm_init ==
    /\ pc = "have_props"
    /\ called' = "__init__"
    /\ UNCHANGED <<kw, props, nodes, children, outputs, ret>>
    /\ \E ok \in BOOLEAN :
         IF ~ok
         THEN /\ Raise("LibraryError", "__init__", "direct")
              /\ UNCHANGED <<identity, idvars>>
         ELSE \E text \in UuidTexts :
              \E draws \in RandomDraws(DefaultChars, Len(text)) :
                LET id == generate_unique_id(DefaultChars, text, draws) IN
                /\ chars' = None
                /\ characters' = text
                /\ rnd' = draws
                /\ suffix' = Some(id)
                /\ unique_id' = Some(id)
                /\ IF props[1].name = None
                   THEN /\ Raise("AttributeError", "__init__", "direct")
                        /\ UNCHANGED <<model_name, endpoint_name, endpoint_config_name>>
                   ELSE /\ model_name' = Some(props[1].name[1] \o Dash \o id)
                        /\ endpoint_name' = Some(props[1].name[1] \o EndpointInfix \o id)
                        /\ endpoint_config_name' =
                               Some(props[1].name[1] \o ConfigInfix \o id)
                        /\ pc' = "idle"
                        /\ err' = err

\* ContainerImage.from_dlc(repository_name, tag)
from_dlc(repo, tag) == [repository_name |-> repo, tag |-> tag]

\* ModelData.from_asset(path)
from_asset(path) == [asset |-> path]

is_not_none(value) == value /= None

\* the truth value Python gives an Optional[str]: None and "" are false
truthy(value) == value /= None /\ value[1] /= ""

\* _set_container, lines 84-89: the ContainerDefinition is constructed
_set_container(via, next) ==
    /\ called' = "_set_container"
    /\ UNCHANGED <<kw, props, identity, model, endpoint_config, endpoint, children,
                   outputs, idvars>>
    /\ \E ok \in BOOLEAN :
         IF ok
         THEN /\ container_definition' =
                   Some([image |-> from_dlc(props[1].repo_name, props[1].tag),
                         environment |-> props[1].environment_vars,
                         model_data |-> None])
              /\ pc' = "set_container_90"
              /\ ret' = [via |-> via, next |-> next]
              /\ err' = err
         ELSE /\ Raise("LibraryError", "_set_container", via)
              /\ UNCHANGED <<container_definition, ret>>

\* _set_container, lines 90-92: model_data is assigned on the constructed node
set_container_90 ==
    /\ pc = "set_container_90"
    /\ UNCHANGED <<kw, props, identity, model, endpoint_config, endpoint, children,
                   outputs, ret, called, idvars>>
    /\ IF truthy(props[1].s3_model_path)
       THEN \E ok \in BOOLEAN :
              IF ok
              THEN /\ container_definition' =
                        Some([container_definition[1] EXCEPT
                                !.model_data = Some(from_asset(props[1].s3_model_path[1]))])
                   /\ pc' = ret.next
                   /\ err' = err
              ELSE /\ Raise("LibraryError", "_set_container", ret.via)
                   /\ UNCHANGED container_definition
       ELSE /\ pc' = ret.next
            /\ UNCHANGED <<container_definition, err>>

\* Model(self, "TgiModel", model_name=..., containers=[...])
Model(name, containers) == [model_name |-> name, containers |-> containers]

\* EndpointConfig(self, "TgiEndpointConfig", endpoint_config_name=...,
\*                instance_production_variants=[...])
EndpointConfig(name, variants) ==
    [endpoint_config_name |-> name, instance_production_variants |-> variants]

\* Endpoint(self, "TgiEndpoint", endpoint_name=..., endpoint_config=...)
Endpoint(name, config) == [endpoint_name |-> name, endpoint_config |-> config]

_set_model_no_prerequisite(via, next) ==
    /\ called' = "_set_model"
    /\ UNCHANGED <<kw, props, identity, container_definition, endpoint_config,
                   endpoint, outputs, ret, idvars>>
    /\ \E ok \in BOOLEAN :
         IF ok /\ "TgiModel" \notin children
         THEN /\ model' = Some(Model(model_name[1], container_definition))
              /\ children' = children \cup {"TgiModel"}
              /\ pc' = next
              /\ err' = err
         ELSE /\ Raise("LibraryError", "_set_model", via)
              /\ UNCHANGED <<model, children>>

_set_model_sets_model_data(via, next) ==
    /\ called' = "_set_model"
    /\ UNCHANGED <<kw, props, identity, endpoint_config, endpoint, outputs, ret, idvars>>
    /\ IF container_definition = None
       THEN /\ Raise("AttributeError", "_set_model", via)
            /\ UNCHANGED <<container_definition, model, children>>
       ELSE \E ok \in BOOLEAN :
              IF ok /\ "TgiModel" \notin children
              THEN /\ container_definition' =
                        Some([container_definition[1] EXCEPT
                                !.model_data = Some(from_asset(props[1].tag))])
                   /\ model' = Some(Model(model_name[1], container_definition'))
                   /\ children' = children \cup {"TgiModel"}
                   /\ pc' = next
                   /\ err' = err
              ELSE /\ Raise("LibraryError", "_set_model", via)
                   /\ UNCHANGED <<container_definition, model, children>>

\* _set_model: reading self.container_definition raises AttributeError when
\* _set_container never assigned it
_set_model(via, next) ==
    /\ called' = "_set_model"
    /\ UNCHANGED <<kw, props, identity, container_definition, endpoint_config,
                   endpoint, outputs, ret, idvars>>
    /\ IF container_definition = None
       THEN /\ Raise("AttributeError", "_set_model", via)
            /\ UNCHANGED <<model, children>>
       ELSE \E ok \in BOOLEAN :
              IF ok /\ "TgiModel" \notin children
              THEN /\ model' = Some(Model(model_name[1], container_definition))
                   /\ children' = children \cup {"TgiModel"}
                   /\ pc' = next
                   /\ err' = err
              ELSE /\ Raise("LibraryError", "_set_model", via)
                   /\ UNCHANGED <<model, children>>

production_variant_defaults(m, p) ==
    [modelName |-> m.model_name,
     variantName |-> "primary",
     initialVariantWeight |-> "1.0",
     initialInstanceCount |-> 1,
     instanceType |-> DefaultInstanceType,
     containerStartupHealthCheckTimeoutInSeconds |-> DefaultHealthCheck]

\* the single entry of instance_production_variants, lines 108-115
production_variant(m, p) ==
    [modelName |-> m.model_name,
     variantName |-> "primary",
     initialVariantWeight |-> "1.0",
     initialInstanceCount |-> 1,
     instanceType |-> p.instance_type,
     containerStartupHealthCheckTimeoutInSeconds |-> p.start_up_health_check_seconds]

\* _set_config: reading self.model raises AttributeError when _set_model
\* never assigned it
_set_config(via, next) ==
    /\ called' = "_set_config"
    /\ UNCHANGED <<kw, props, identity, container_definition, model, endpoint,
                   outputs, ret, idvars>>
    /\ IF model = None
       THEN /\ Raise("AttributeError", "_set_config", via)
            /\ UNCHANGED <<endpoint_config, children>>
       ELSE \E ok \in BOOLEAN :
              IF ok /\ "TgiEndpointConfig" \notin children
              THEN /\ endpoint_config' =
                        Some(EndpointConfig(endpoint_config_name[1],
                                            <<production_variant(model[1], props[1])>>))
                   /\ children' = children \cup {"TgiEndpointConfig"}
                   /\ pc' = next
                   /\ err' = err
              ELSE /\ Raise("LibraryError", "_set_config", via)
                   /\ UNCHANGED <<endpoint_config, children>>

\* _set_endpoint: reading self.endpoint_config raises AttributeError when
\* _set_config never assigned it
_set_endpoint(via, next) ==
    /\ called' = "_set_endpoint"
    /\ UNCHANGED <<kw, props, identity, container_definition, model, endpoint_config,
                   outputs, ret, idvars>>
    /\ IF endpoint_config = None
       THEN /\ Raise("AttributeError", "_set_endpoint", via)
            /\ UNCHANGED <<endpoint, children>>
       ELSE \E ok \in BOOLEAN :
              IF ok /\ "TgiEndpoint" \notin children
              THEN /\ endpoint' = Some(Endpoint(endpoint_name[1], endpoint_config[1]))
                   /\ children' = children \cup {"TgiEndpoint"}
                   /\ pc' = next
                   /\ err' = err
              ELSE /\ Raise("LibraryError", "_set_endpoint", via)
                   /\ UNCHANGED <<endpoint, children>>

\* run_endpoint_build, line 76: the caller invokes run_endpoint_build, whose
\* first statement calls _set_container
run_76 ==
    /\ pc = "idle"
    /\ _set_container("run_76", "run_77")

run_77_calls_set_config ==
    /\ pc = "run_77"
    /\ _set_config("run_77", "run_78")

\* run_endpoint_build, line 77
run_77 ==
    /\ pc = "run_77"
    /\ _set_model("run_77", "run_78")

\* run_endpoint_build, line 78
run_78 ==
    /\ pc = "run_78"
    /\ _set_config("run_78", "run_79")

\* run_endpoint_build, line 79
run_79 ==
    /\ pc = "run_79"
    /\ _set_endpoint("run_79", "run_81")

\* run_endpoint_build, line 81: CfnOutput(self, "EndpointName", value=...)
run_81 ==
    /\ pc = "run_81"
    /\ called' = "run_endpoint_build"
    /\ UNCHANGED <<kw, props, identity, nodes, ret, idvars>>
    /\ IF endpoint = None
       THEN /\ Raise("AttributeError", "run_endpoint_build", "run_81")
            /\ UNCHANGED <<outputs, children>>
       ELSE \E ok \in BOOLEAN :
              IF ok /\ "EndpointName" \notin children
              THEN /\ outputs' = Append(outputs, [id |-> "EndpointName",
                                                  value |-> endpoint[1].endpoint_name])
                   /\ children' = children \cup {"EndpointName"}
                   /\ pc' = "idle"
                   /\ err' = err
              ELSE /\ Raise("LibraryError", "run_endpoint_build", "run_81")
                   /\ UNCHANGED <<outputs, children>>

\* the caller invokes one build step itself, on a constructed builder
call_set_container ==
    /\ pc = "idle"
    /\ _set_container("direct", "idle")

call_set_model ==
    /\ pc = "idle"
    /\ _set_model("direct", "idle")

call_set_config ==
    /\ pc = "idle"
    /\ _set_config("direct", "idle")

call_set_endpoint ==
    /\ pc = "idle"
    /\ _set_endpoint("direct", "idle")

Next ==
    \/ CreateProps
    \/ TgiLlm_init
    \/ run_76
    \/ set_container_90
    \/ run_77
    \/ run_78
    \/ run_79
    \/ run_81
    \/ call_set_container
    \/ call_set_model
    \/ call_set_config
    \/ call_set_endpoint

Spec == Init /\ [][Next]_vars

\* ---------------------------------------- generate_unique_id on its own
InitId ==
    /\ chars \in {None} \cup {Some(n) : n \in 0..MaxChars}
    /\ characters \in UuidTexts
    /\ rnd = <<>>
    /\ suffix = None
    /\ kw = None
    /\ props = None
    /\ unique_id = None
    /\ model_name = None
    /\ endpoint_name = None
    /\ endpoint_config_name = None
    /\ container_definition = None
    /\ model = None
    /\ endpoint_config = None
    /\ endpoint = None
    /\ children = {}
    /\ outputs = <<>>
    /\ pc = "start"
    /\ ret = [via |-> "", next |-> ""]
    /\ called = ""
    /\ err = None

\* generate_unique_id(chars) / generate_unique_id()
generate_unique_id_call ==
    /\ suffix = None
    /\ \E draws \in RandomDraws(Field(chars, DefaultChars), Len(characters)) :
         /\ rnd' = draws
         /\ suffix' = Some(generate_unique_id(Field(chars, DefaultChars),
                                              characters, draws))
    /\ UNCHANGED <<kw, props, builder, pc, ret, called, err, chars, characters>>

NextId == generate_unique_id_call

SpecId == InitId /\ [][NextId]_vars

\* ------------------------------------------------------------------ claims
tag_or_model_id_missing ==
    /\ kw /= None
    /\ \/ kw[1].tag = None
       \/ kw[1].environment_vars = None
       \/ kw[1].environment_vars[1].HF_MODEL_ID = None

nothing_built ==
    /\ unique_id = None /\ model_name = None
    /\ endpoint_name = None /\ endpoint_config_name = None
    /\ container_definition = None /\ model = None
    /\ endpoint_config = None /\ endpoint = None
    /\ children = {} /\ outputs = <<>>

all_four_nodes ==
    /\ container_definition /= None /\ model /= None
    /\ endpoint_config /= None /\ endpoint /= None

\* a call of _set_container has returned normally and none is in progress
container_done ==
    /\ container_definition /= None
    /\ pc /= "set_container_90"
    /\ ~(err /= None /\ err[1].at = "_set_container")

\* C1: for every valid configuration the constructor does not fail on the
\* configuration it is given, and a completed run_endpoint_build has emitted
\* exactly one endpoint name, a non-empty string.
C1_RunProducesEndpointName ==
    props /= None =>
      /\ ~(err /= None /\ err[1].at = "__init__" /\ err[1].type = "AttributeError")
      /\ (pc = "idle" /\ called = "run_endpoint_build" =>
            Len(outputs) = 1 /\ outputs[1].value /= <<>>)

\* C2: a configuration without tag, or without the model identifier inside
\* environment_vars, is refused when it is created: no identity, no node, no
\* construct id and no output exists in any state that follows.
C2_ValidationBeforeNodes ==
    tag_or_model_id_missing =>
      /\ pc = "validation_error"
      /\ props = None
      /\ nothing_built

C2_Witness ==
    /\ pc = "validation_error"
    /\ kw[1].tag = None
    /\ kw[1].environment_vars = Some([HF_MODEL_ID |-> Some("gpt2")])

\* C3: start_up_health_check_seconds is 300 when omitted, every value <= 0 is
\* refused by validation, and no endpoint configuration carries a timeout
\* <= 0.
C3_HealthCheckPositive ==
    /\ (props /= None /\ kw[1].start_up_health_check_seconds = None =>
          props[1].start_up_health_check_seconds = 300)
    /\ (kw /= None /\ kw[1].start_up_health_check_seconds /= None
          /\ kw[1].start_up_health_check_seconds[1] <= 0 =>
          props = None /\ pc = "validation_error")
    /\ (endpoint_config /= None =>
          endpoint_config[1].instance_production_variants[1]
              .containerStartupHealthCheckTimeoutInSeconds > 0)

\* C4: the suffix generate_unique_id returns has exactly the requested
\* length, 10 when no length is given, and each of its characters occurs in
\* the UUID text it was sampled from.
C4_SuffixLength ==
    suffix /= None =>
      /\ Len(suffix[1]) = (IF chars = None THEN 10 ELSE chars[1])
      /\ \A i \in 1..Len(suffix[1]) : suffix[1][i] \in Range(characters)

C4_Witness ==
    /\ suffix /= None
    /\ chars = None
    /\ "-" \in Range(suffix[1])

\* C5: run_endpoint_build calls _set_container, _set_model, _set_config and
\* _set_endpoint in this order, each statement is reached only once the node
\* of the statement before it exists, a node never exists without the nodes
\* it depends on, and the one output is the endpoint's name, emitted when
\* all four nodes exist.
C5_StepOrder ==
    /\ (endpoint /= None => endpoint_config /= None)
    /\ (endpoint_config /= None => model /= None)
    /\ (model /= None => container_definition /= None)
    /\ (pc = "run_77" => called = "_set_container" /\ container_definition /= None)
    /\ (pc = "run_78" => called = "_set_model" /\ model /= None)
    /\ (pc = "run_79" => called = "_set_config" /\ endpoint_config /= None)
    /\ (pc = "run_81" => called = "_set_endpoint" /\ endpoint /= None)
    /\ (err /= None =>
          /\ (err[1].via = "run_76" => err[1].at = "_set_container")
          /\ (err[1].via = "run_77" => err[1].at = "_set_model")
          /\ (err[1].via = "run_78" => err[1].at = "_set_config")
          /\ (err[1].via = "run_79" => err[1].at = "_set_endpoint"))
    /\ (outputs /= <<>> =>
          /\ all_four_nodes
          /\ Len(outputs) = 1
          /\ outputs[1].value = endpoint[1].endpoint_name
          /\ outputs[1].value = endpoint_name[1])

C5_Witness ==
    /\ pc = "idle"
    /\ called = "run_endpoint_build"
    /\ Len(outputs) = 1
    /\ all_four_nodes

\* C6 as stated: after _set_container the model-data pointer is the
\* configured s3_model_path whenever one was supplied, whatever the string,
\* and is unset when it was omitted.
C6_ModelDataForEveryString ==
    container_done =>
      /\ (kw[1].s3_model_path /= None =>
            container_definition[1].model_data =
                Some(from_asset(kw[1].s3_model_path[1])))
      /\ (kw[1].s3_model_path = None => container_definition[1].model_data = None)

\* C6 amended: after _set_container the model-data pointer is the configured
\* s3_model_path when a non-empty one was supplied, and is unset when it was
\* omitted or is the empty string.
C6_ModelDataForNonEmpty ==
    container_done =>
      /\ (kw[1].s3_model_path /= None /\ kw[1].s3_model_path[1] /= "" =>
            container_definition[1].model_data =
                Some(from_asset(kw[1].s3_model_path[1])))
      /\ (kw[1].s3_model_path = None \/ kw[1].s3_model_path = Some("") =>
            container_definition[1].model_data = None)

C6_Witness ==
    /\ container_done
    /\ called = "_set_container"
    /\ pc = "run_77"
    /\ kw[1].s3_model_path = Some("")
    /\ container_definition[1].model_data = None

\* C7: the endpoint configuration has exactly one production variant, of
\* weight 1.0 and instance count 1, with the configured instance type
\* ("ml.g5.2xlarge" when omitted), the configured health-check timeout and
\* the name of the model node built before it.
C7_SingleVariant ==
    endpoint_config /= None =>
      LET v == endpoint_config[1].instance_production_variants IN
      /\ Len(v) = 1
      /\ v[1].initialVariantWeight = "1.0"
      /\ v[1].initialInstanceCount = 1
      /\ v[1].instanceType = (IF kw[1].instance_type = None THEN "ml.g5.2xlarge"
                              ELSE kw[1].instance_type[1])
      /\ v[1].containerStartupHealthCheckTimeoutInSeconds =
             props[1].start_up_health_check_seconds
      /\ (kw[1].start_up_health_check_seconds /= None =>
             v[1].containerStartupHealthCheckTimeoutInSeconds =
                 kw[1].start_up_health_check_seconds[1])
      /\ v[1].modelName = model[1].model_name
      /\ v[1].modelName = model_name[1]

C7_Witness ==
    /\ endpoint_config /= None
    /\ kw[1].instance_type = Some("ml.g5.12xlarge")
    /\ kw[1].start_up_health_check_seconds = Some(600)

\* C8: a failure is propagated to the caller and ends the build: once an
\* exception has been raised no statement runs any more, so no later step
\* constructs a node and no output follows; an output is emitted only by a
\* step taken with all four nodes constructed and no failure.
C8_FailureAborts ==
    [][ /\ (err' /= None => pc' = "raised")
        /\ (err /= None => UNCHANGED vars)
        /\ (outputs' /= outputs => all_four_nodes /\ err' = None) ]_vars

C8_Witness ==
    /\ pc = "raised"
    /\ err[1].via = "run_77"
    /\ container_definition /= None
    /\ model = None /\ endpoint_config = None /\ endpoint = None
    /\ outputs = <<>>

\* C9: a build step invoked while the node it depends on is missing raises
\* and constructs nothing.
C9_MissingPrerequisite ==
    /\ (called = "_set_model" /\ container_definition = None =>
          pc = "raised" /\ err[1].at = "_set_model" /\ model = None)
    /\ (called = "_set_config" /\ model = None =>
          pc = "raised" /\ err[1].at = "_set_config" /\ endpoint_config = None)
    /\ (called = "_set_endpoint" /\ endpoint_config = None =>
          pc = "raised" /\ err[1].at = "_set_endpoint" /\ endpoint = None)

C9_Witness ==
    /\ called = "_set_model"
    /\ container_definition = None
    /\ pc = "raised"
    /\ err[1].type = "AttributeError"
    /\ children = {}

\* C10 as stated: the identity never changes once the constructor generated
\* it, and no statement changes a node that has been constructed (the
\* construction of a new container node by a further _set_container aside).
C10_NoMutationAfterConstruction ==
    [][ /\ (unique_id /= None => unique_id' = unique_id)
        /\ (model_name /= None => identity' = identity)
        /\ (model /= None => model' = model)
        /\ (endpoint_config /= None => endpoint_config' = endpoint_config)
        /\ (endpoint /= None => endpoint' = endpoint)
        /\ (container_definition /= None /\ pc' /= "set_container_90" =>
              container_definition' = container_definition) ]_vars

\* C10 amended: the identity never changes once generated; the model,
\* endpoint-config and endpoint nodes never change once constructed; the
\* container node is changed only inside _set_container, which assigns its
\* model_data after constructing it, and by no statement once _set_container
\* has returned.
C10_FrozenOutsideSetContainer ==
    [][ /\ (unique_id /= None => unique_id' = unique_id)
        /\ (model_name /= None => identity' = identity)
        /\ (model /= None => model' = model)
        /\ (endpoint_config /= None => endpoint_config' = endpoint_config)
        /\ (endpoint /= None => endpoint' = endpoint)
        /\ (container_definition /= None /\ pc /= "set_container_90"
              /\ pc' /= "set_container_90" =>
              container_definition' = container_definition) ]_vars

C10_Witness ==
    /\ all_four_nodes
    /\ outputs /= <<>>
    /\ container_definition[1].model_data /= None
    /\ model[1].containers = container_definition

====
